---- MODULE Spec2Model ----
(***************************************************************************)
(* Model of src/cache_manager.c: a bounded LRU cache (hash index with      *)
(* separate chaining plus an intrusive doubly-linked recency list) guarded *)
(* by one pthread read/write lock, called by several threads.              *)
(*                                                                         *)
(* Strings (char* keys and values) are sequences of byte codes.  Nodes     *)
(* live at addresses 1..NumAddrs of a small heap; address 0 is NULL.       *)
(***************************************************************************)
EXTENDS Integers, Sequences, FiniteSets, TLC

\* ------------------------------------------------------------------ bounds
MaxCapacity == 2

\* The calls each thread makes when its calls are counted (OPS_PER_THREAD).
MaxOps == 2

\* Two calling threads: every interference in this code is between two calls.
Threads == {1, 2}
\* main, which creates the cache, joins the threads and destroys the cache.
MainThread == Cardinality(Threads) + 1
\* put creates its node before it evicts: capacity + 1 nodes can be live.
Addrs == 1..(MaxCapacity + 1)

NULL == 0
\* The null char*: no C string holds the byte 0, so <<0>> is no string.
NullStr == <<0>>
NoThread == 0

\* "a", "d", "f": a and d share a bucket when hsize = 3, a and f when hsize = 5.
Keys == {<<97>>, <<100>>, <<102>>}
\* "1", "2"
Values == {<<49>>, <<50>>}
KeyArgs == Keys \cup {NullStr}
ValueArgs == Values \cup {NullStr}

VARIABLES
    cache,      \* the cache_t object and the node objects of its heap
    writer,     \* the thread holding the lock for writing, or NoThread
    readers,    \* the threads holding the lock for reading
    pc,         \* each thread's position in the function it is running
    key,        \* each thread's key argument
    value,      \* each thread's value argument (cache_put)
    cur,        \* each thread's local cur
    n,          \* each thread's local n (cache_put)
    rc,         \* each thread's int return value (cache_put, cache_delete)
    rv,         \* each thread's char* return value (cache_get)
    pre,        \* history: the cache as it was when no thread last held the
                \* write lock (inside a critical section: as it was on entry)
    touch,      \* history: the live keys, most recently promoted first
    acc,        \* history: the live keys, most recent successful access first
    lastPut,    \* history: the last successful put while nothing has followed
                \* it but one get of its key, and the thread making that get
    deleted,    \* history: the keys deleted with success and not put since
    track,      \* what this run records among acc and deleted, and "ops" when
                \* each thread makes MaxOps calls and then finishes
    ops,        \* the calls each thread has begun (counted when track has "ops")
    destroy     \* cache_destroy: main's position and locals i and cur, the
                \* free() calls made on each node, on the bucket array and on
                \* the cache, and whether the lock is destroyed

vars == <<cache, writer, readers, pc, key, value, cur, n, rc, rv, pre,
          touch, acc, lastPut, deleted, track, ops, destroy>>

\* ------------------------------------------------------------------ nodes
FreeNode == [key |-> NullStr, value |-> NullStr, prev |-> NULL, next |-> NULL,
             hnext |-> NULL, live |-> FALSE]

\* djb2: hash = 5381; hash = ((hash << 5) + hash) + c for every byte c.
\* unsigned long arithmetic wraps at 2^64; the keys of this model are too
\* short to reach it, so no reduction is written.
RECURSIVE djb2(_, _, _)
djb2(str, i, hash) ==
    IF i > Len(str) THEN hash
    ELSE djb2(str, i + 1, (hash * 32 + hash) + str[i])

hash_str(str) == djb2(str, 1, 5381)

\* The chain scan "while (cur) { if (strcmp(cur->key, key) == 0) ...;
\* cur = cur->hnext; }": the node found, or NULL.  fuel bounds the walk.
RECURSIVE chain_find(_, _, _, _)
chain_find(c, p, k, fuel) ==
    IF p = NULL \/ fuel = 0 THEN NULL
    ELSE IF c.node[p].key = k THEN p
    ELSE chain_find(c, c.node[p].hnext, k, fuel - 1)

lookup(c, k) == chain_find(c, c.htable[hash_str(k) % c.hsize], k, Cardinality(Addrs) + 1)

\* The node before the one chain_find finds (cache_delete's prev), or NULL.
RECURSIVE chain_prev(_, _, _, _, _)
chain_prev(c, p, q, k, fuel) ==
    IF p = NULL \/ fuel = 0 THEN NULL
    ELSE IF c.node[p].key = k THEN q
    ELSE chain_prev(c, c.node[p].hnext, p, k, fuel - 1)

lookup_prev(c, k) ==
    chain_prev(c, c.htable[hash_str(k) % c.hsize], NULL, k, Cardinality(Addrs) + 1)

node_free(c, p) ==
    IF p = NULL THEN c ELSE [c EXCEPT !.node[p] = FreeNode]

dll_remove(c, p) ==
    LET c1 == IF c.node[p].prev # NULL
              THEN [c EXCEPT !.node[c.node[p].prev].next = c.node[p].next]
              ELSE [c EXCEPT !.head = c.node[p].next]
        c2 == IF c1.node[p].next # NULL
              THEN [c1 EXCEPT !.node[c1.node[p].next].prev = c1.node[p].prev]
              ELSE [c1 EXCEPT !.tail = c1.node[p].prev]
    IN  [c2 EXCEPT !.node[p].prev = NULL, !.node[p].next = NULL]

\* Mutant: tail is not set when the list was empty.
dll_push_head_notail(c, p) ==
    LET c1 == [c EXCEPT !.node[p].prev = NULL, !.node[p].next = c.head]
        c2 == IF c1.head # NULL THEN [c1 EXCEPT !.node[c1.head].prev = p] ELSE c1
    IN  [c2 EXCEPT !.head = p]

dll_push_head(c, p) ==
    LET c1 == [c EXCEPT !.node[p].prev = NULL, !.node[p].next = c.head]
        c2 == IF c1.head # NULL THEN [c1 EXCEPT !.node[c1.head].prev = p] ELSE c1
        c3 == [c2 EXCEPT !.head = p]
    IN  IF c3.tail = NULL THEN [c3 EXCEPT !.tail = p] ELSE c3

\* Unlink p from its bucket's chain, found by identity.
RECURSIVE chain_unlink(_, _, _, _, _, _)
chain_unlink(c, hv, p, q, x, fuel) ==
    IF x = NULL \/ fuel = 0 THEN c
    ELSE IF x = p
         THEN LET c1 == IF q # NULL
                        THEN [c EXCEPT !.node[q].hnext = c.node[x].hnext]
                        ELSE [c EXCEPT !.htable[hv] = c.node[x].hnext]
              IN  [c1 EXCEPT !.node[x].hnext = NULL]
    ELSE chain_unlink(c, hv, p, x, c.node[x].hnext, fuel - 1)

\* Mutant: the node is left in its bucket's chain.
htable_remove_skip(c, p) == c

htable_remove(c, p) ==
    LET hv == hash_str(c.node[p].key) % c.hsize
    IN  chain_unlink(c, hv, p, NULL, c.htable[hv], Cardinality(Addrs) + 1)

htable_insert(c, p) ==
    LET hv == hash_str(c.node[p].key) % c.hsize
    IN  [c EXCEPT !.node[p].hnext = c.htable[hv], !.htable[hv] = p]

\* node_create when calloc returns address a and both strdup calls succeed.
node_create(c, a, k, v) ==
    [c EXCEPT !.node[a] = [key |-> k, value |-> v, prev |-> NULL, next |-> NULL,
                           hnext |-> NULL, live |-> TRUE]]

FreeAddrs(c) == {a \in Addrs : ~c.node[a].live}

\* The address calloc returns.  The code uses addresses only for identity, so
\* behaviours that differ in the addresses chosen are renamings of one
\* another: the lowest free address stands for them all.
calloc_addr(c) == CHOOSE a \in FreeAddrs(c) : \A b \in FreeAddrs(c) : a <= b

\* The null cache_t*: what cache_create returns when it fails.  No cache has
\* capacity 0.
NullCache == [capacity |-> 0, size |-> 0, hsize |-> 0, htable |-> <<>>,
              head |-> NULL, tail |-> NULL, node |-> [a \in Addrs |-> FreeNode]]

\* The calloc calls of cache_create that succeed: none, the first (the
\* cache_t), or both (the cache_t and the bucket array).
Callocs == {0, 1, 2}

\* Mutant: the bucket count is 2 * capacity.
cache_create_even(capacity, callocs) ==
    IF capacity = 0 \/ callocs < 2 THEN NullCache
    ELSE [capacity |-> capacity, size |-> 0, hsize |-> capacity * 2,
          htable |-> [i \in 0..(capacity * 2) |-> NULL],
          head |-> NULL, tail |-> NULL,
          node |-> [a \in Addrs |-> FreeNode]]

\* cache_create(capacity) when callocs of its calloc calls succeed: NULL when
\* capacity is 0 or a calloc fails, the new cache otherwise.
cache_create(capacity, callocs) ==
    IF capacity = 0 \/ callocs < 2 THEN NullCache
    ELSE [capacity |-> capacity, size |-> 0, hsize |-> capacity * 2 + 1,
          htable |-> [i \in 0..(capacity * 2) |-> NULL],
          head |-> NULL, tail |-> NULL,
          node |-> [a \in Addrs |-> FreeNode]]

\* ------------------------------------------------------------------ views
\* The nodes met walking next from head, in order (at most fuel of them).
RECURSIVE list_walk(_, _, _)
list_walk(c, p, fuel) ==
    IF p = NULL \/ fuel = 0 THEN <<>>
    ELSE <<p>> \o list_walk(c, c.node[p].next, fuel - 1)

ListNodes(c) == list_walk(c, c.head, Cardinality(Addrs) + 1)

\* The nodes met walking hnext from a bucket's head.
RECURSIVE chain_walk(_, _, _)
chain_walk(c, p, fuel) ==
    IF p = NULL \/ fuel = 0 THEN <<>>
    ELSE <<p>> \o chain_walk(c, c.node[p].hnext, fuel - 1)

ChainNodes(c, hv) == chain_walk(c, c.htable[hv], Cardinality(Addrs) + 1)

Range(s) == {s[i] : i \in 1..Len(s)}

\* The cache as an LRU map: <<key, value>> pairs, most recently used first.
View(c) == [i \in 1..Len(ListNodes(c)) |->
               <<c.node[ListNodes(c)[i]].key, c.node[ListNodes(c)[i]].value>>]

\* ------------------------------------------------------------------ lock
\* pthread_rwlock_wrlock returns once no thread holds the lock.
CanWrLock == writer = NoThread /\ readers = {}
\* pthread_rwlock_rdlock returns once no thread holds it for writing.
CanRdLock == writer = NoThread

\* ------------------------------------------------------------------ history
RECURSIVE SeqKeep(_, _)
SeqKeep(s, S) ==
    IF s = <<>> THEN <<>>
    ELSE IF Head(s) \in S THEN <<Head(s)>> \o SeqKeep(Tail(s), S)
    ELSE SeqKeep(Tail(s), S)

SeqRemove(s, x) == SeqKeep(s, Range(s) \ {x})
MoveFront(s, x) == <<x>> \o SeqRemove(s, x)

\* The keys a scan finds.
LiveKeys(c) == {k \in Keys : lookup(c, k) # NULL}

NoPut == [key |-> NullStr, value |-> NullStr, getter |-> NoThread]

\* A call other than the one get that may follow the last put begins.
OtherCallBegins == lastPut' = NoPut

hist == <<touch, acc, lastPut, deleted, track>>

\* cache_destroy has not been called.
NoDestroy == [pc |-> "none", i |-> 0, cur |-> NULL,
              freed |-> [a \in Addrs |-> 0],
              htable_freed |-> 0, cache_freed |-> 0, lock_destroyed |-> FALSE]

\* Thread t has made its calls (a thread whose calls are not counted may
\* finish after any of them).
Finished(t) == pc[t] = "idle" /\ ("ops" \in track => ops[t] = MaxOps)

\* pthread_join has returned for every thread (lines 277-278).
Joined == \A t \in Threads : Finished(t)

\* A thread calls into the cache: main has not begun to destroy it, and the
\* thread has calls left to make.
CallBegins(t) ==
    /\ destroy.pc = "none"
    /\ IF "ops" \in track
       THEN ops[t] < MaxOps /\ ops' = [ops EXCEPT ![t] = ops[t] + 1]
       ELSE UNCHANGED ops

Start ==
    \* main goes on only with a cache ("assert(cache);").
    /\ \E capacity \in 1..MaxCapacity : cache = cache_create(capacity, 2)
    /\ writer = NoThread
    /\ readers = {}
    /\ pc = [t \in Threads |-> "idle"]
    /\ key = [t \in Threads |-> NullStr]
    /\ value = [t \in Threads |-> NullStr]
    /\ cur = [t \in Threads |-> NULL]
    /\ n = [t \in Threads |-> NULL]
    /\ rc = [t \in Threads |-> 0]
    /\ rv = [t \in Threads |-> NullStr]
    /\ pre = cache
    /\ touch = <<>>
    /\ acc = <<>>
    /\ lastPut = NoPut
    /\ deleted = {}
    /\ ops = [t \in Threads |-> 0]
    /\ destroy = NoDestroy

\* No optional history is recorded.
Init == Start /\ track = {}
\* The order of successful accesses is recorded.
InitAcc == Start /\ track = {"acc"}
\* The deleted keys are recorded.
InitDel == Start /\ track = {"deleted"}
\* Each thread makes MaxOps calls and finishes.
InitOps == Start /\ track = {"ops"}

\* The function returns: its locals are gone.
Return(t) ==
    /\ pc' = [pc EXCEPT ![t] = "idle"]
    /\ key' = [key EXCEPT ![t] = NullStr]
    /\ value' = [value EXCEPT ![t] = NullStr]
    /\ cur' = [cur EXCEPT ![t] = NULL]
    /\ n' = [n EXCEPT ![t] = NULL]
    /\ rc' = [rc EXCEPT ![t] = 0]
    /\ rv' = [rv EXCEPT ![t] = NullStr]

\* pthread_rwlock_unlock by the writer, then return.
WrUnlockReturn(t) ==
    /\ writer = t
    /\ writer' = NoThread
    /\ pre' = cache
    /\ Return(t)
    /\ UNCHANGED <<cache, readers>>

\* ------------------------------------------------------------------ cache_put
\* "if (!cache || !key || !value) return -1;"
put_inval(t) ==
    /\ pc[t] = "idle"
    /\ CallBegins(t)
    /\ \E k \in KeyArgs, v \in ValueArgs : k = NullStr \/ v = NullStr
    /\ pc' = [pc EXCEPT ![t] = "put_inval"]
    /\ rc' = [rc EXCEPT ![t] = -1]
    /\ UNCHANGED <<cache, writer, readers, key, value, cur, n, rv, pre, hist>>
    /\ UNCHANGED destroy

put_inval_return(t) ==
    /\ pc[t] = "put_inval"
    /\ Return(t)
    /\ UNCHANGED <<cache, writer, readers, pre, hist>>
    /\ UNCHANGED <<ops, destroy>>

\* The call with valid arguments: pthread_rwlock_wrlock returns and the key's
\* chain is scanned (the scan reads only, and the lock keeps writers out).
put_wrlock(t) ==
    /\ pc[t] = "idle"
    /\ CallBegins(t)
    /\ CanWrLock
    /\ \E k \in Keys, v \in Values :
          /\ key' = [key EXCEPT ![t] = k]
          /\ value' = [value EXCEPT ![t] = v]
          /\ cur' = [cur EXCEPT ![t] = lookup(cache, k)]
          /\ pc' = [pc EXCEPT ![t] = IF lookup(cache, k) # NULL
                                     THEN "put_update" ELSE "put_create"]
    /\ writer' = t
    /\ OtherCallBegins
    /\ UNCHANGED <<cache, readers, n, rc, rv, pre, touch, acc, deleted, track>>
    /\ UNCHANGED destroy

\* Mutant: the failed update returns -1 with the lock still held.
put_update_nomem_nounlock(t) ==
    /\ pc[t] = "put_update"
    /\ rc' = [rc EXCEPT ![t] = -1]
    /\ pc' = [pc EXCEPT ![t] = "put_inval"]
    /\ UNCHANGED <<cache, writer, readers, key, value, cur, n, rv, pre, hist>>
    /\ UNCHANGED <<ops, destroy>>

\* Key present, strdup(value) fails.
put_update_nomem(t) ==
    /\ pc[t] = "put_update"
    /\ rc' = [rc EXCEPT ![t] = -1]
    /\ pc' = [pc EXCEPT ![t] = "put_unlock"]
    /\ UNCHANGED <<cache, writer, readers, key, value, cur, n, rv, pre, hist>>
    /\ UNCHANGED <<ops, destroy>>

\* Mutant: the node is moved to the head and the old value kept.
put_update_body_keepvalue(c, p, v) == dll_push_head(dll_remove(c, p), p)

\* Key present: the value is replaced and the node moved to the head.
put_update_body(c, p, v) ==
    dll_push_head(dll_remove([c EXCEPT !.node[p].value = v], p), p)

put_update(t) ==
    /\ pc[t] = "put_update"
    /\ cache' = put_update_body(cache, cur[t], value[t])
    /\ rc' = [rc EXCEPT ![t] = 0]
    /\ pc' = [pc EXCEPT ![t] = "put_unlock"]
    /\ UNCHANGED <<writer, readers, key, value, cur, n, rv, pre, hist>>
    /\ UNCHANGED <<ops, destroy>>

\* Key absent, node_create returns NULL (calloc or a strdup failed).
put_create_nomem(t) ==
    /\ pc[t] = "put_create"
    /\ rc' = [rc EXCEPT ![t] = -1]
    /\ pc' = [pc EXCEPT ![t] = "put_unlock"]
    /\ UNCHANGED <<cache, writer, readers, key, value, cur, n, rv, pre, hist>>
    /\ UNCHANGED <<ops, destroy>>

\* Key absent, node_create succeeds.
put_create(t) ==
    /\ pc[t] = "put_create"
    /\ FreeAddrs(cache) # {}
    /\ cache' = node_create(cache, calloc_addr(cache), key[t], value[t])
    /\ n' = [n EXCEPT ![t] = calloc_addr(cache)]
    /\ pc' = [pc EXCEPT ![t] = "put_insert"]
    /\ UNCHANGED <<writer, readers, key, value, cur, rc, rv, pre, hist>>
    /\ UNCHANGED <<ops, destroy>>

\* Mutant: the new node is never linked into its bucket's chain.
put_insert_body_nohash(c, p) ==
    LET c1 == dll_push_head(c, p)
    IN  [c1 EXCEPT !.size = c1.size + 1]

\* "htable_insert(cache, n); dll_push_head(cache, n); cache->size++;"
put_insert_body(c, p) ==
    LET c1 == dll_push_head(htable_insert(c, p), p)
    IN  [c1 EXCEPT !.size = c1.size + 1]

put_insert(t) ==
    /\ pc[t] = "put_insert"
    /\ cache' = put_insert_body(cache, n[t])
    /\ pc' = [pc EXCEPT ![t] = "put_evict"]
    /\ UNCHANGED <<writer, readers, key, value, cur, n, rc, rv, pre, hist>>
    /\ UNCHANGED <<ops, destroy>>

\* Mutant: the overflow test is off by one.
put_evict_body_offbyone(c) ==
    IF c.size > c.capacity + 1 /\ c.tail # NULL
    THEN LET ev == c.tail
             c1 == htable_remove(dll_remove(c, ev), ev)
         IN  node_free([c1 EXCEPT !.size = c1.size - 1], ev)
    ELSE c

\* "if (cache->size > cache->capacity) { node *ev = cache->tail; if (ev) ... }"
put_evict_body(c) ==
    IF c.size > c.capacity /\ c.tail # NULL
    THEN LET ev == c.tail
             c1 == htable_remove(dll_remove(c, ev), ev)
         IN  node_free([c1 EXCEPT !.size = c1.size - 1], ev)
    ELSE c

put_evict(t) ==
    /\ pc[t] = "put_evict"
    /\ cache' = put_evict_body(cache)
    /\ rc' = [rc EXCEPT ![t] = 0]
    /\ pc' = [pc EXCEPT ![t] = "put_unlock"]
    /\ UNCHANGED <<writer, readers, key, value, cur, n, rv, pre, hist>>
    /\ UNCHANGED <<ops, destroy>>

\* "pthread_rwlock_unlock(&cache->lock); return 0;" (or return -1)
put_unlock(t) ==
    /\ pc[t] = "put_unlock"
    /\ WrUnlockReturn(t)
    /\ touch' = IF rc[t] = 0 THEN SeqKeep(MoveFront(touch, key[t]), LiveKeys(cache))
                ELSE touch
    /\ acc' = IF rc[t] = 0 /\ "acc" \in track
              THEN SeqKeep(MoveFront(acc, key[t]), LiveKeys(cache)) ELSE acc
    /\ deleted' = IF rc[t] = 0 THEN deleted \ {key[t]} ELSE deleted
    /\ UNCHANGED track
    /\ lastPut' = IF rc[t] = 0
                  THEN [key |-> key[t], value |-> value[t], getter |-> NoThread]
                  ELSE NoPut
    /\ UNCHANGED <<ops, destroy>>

\* ------------------------------------------------------------------ cache_get
\* "if (!cache || !key) return NULL;"
get_inval(t) ==
    /\ pc[t] = "idle"
    /\ CallBegins(t)
    /\ pc' = [pc EXCEPT ![t] = "get_inval"]
    /\ rv' = [rv EXCEPT ![t] = NullStr]
    /\ UNCHANGED <<cache, writer, readers, key, value, cur, n, rc, pre, hist>>
    /\ UNCHANGED destroy

get_inval_return(t) ==
    /\ pc[t] = "get_inval"
    /\ Return(t)
    /\ UNCHANGED <<cache, writer, readers, pre, hist>>
    /\ UNCHANGED <<ops, destroy>>

\* The call with a valid key: pthread_rwlock_rdlock returns and the first
\* scan is made under the read lock.
get_rdlock(t) ==
    /\ pc[t] = "idle"
    /\ CallBegins(t)
    /\ CanRdLock
    /\ \E k \in Keys :
          /\ key' = [key EXCEPT ![t] = k]
          /\ cur' = [cur EXCEPT ![t] = lookup(cache, k)]
          /\ pc' = [pc EXCEPT ![t] = IF lookup(cache, k) # NULL
                                     THEN "get_rdunlock" ELSE "get_miss1"]
          /\ lastPut' = IF lastPut.key = k /\ lastPut.getter = NoThread
                        THEN [lastPut EXCEPT !.getter = t] ELSE NoPut
    /\ readers' = readers \cup {t}
    /\ UNCHANGED <<cache, writer, value, n, rc, rv, pre, touch, acc, deleted, track>>
    /\ UNCHANGED destroy

\* "if (!cur) { pthread_rwlock_unlock(&cache->lock); return NULL; }"
get_miss1(t) ==
    /\ pc[t] = "get_miss1"
    /\ readers' = readers \ {t}
    /\ Return(t)
    /\ lastPut' = IF lastPut.getter = t THEN NoPut ELSE lastPut
    /\ UNCHANGED <<cache, writer, pre, touch, acc, deleted, track>>
    /\ UNCHANGED <<ops, destroy>>

\* Mutant: the write lock is asked for with the read lock still held.
get_rdunlock_keep(t) ==
    /\ pc[t] = "get_rdunlock"
    /\ pc' = [pc EXCEPT ![t] = "get_wrlock"]
    /\ UNCHANGED <<cache, writer, readers, key, value, cur, n, rc, rv, pre, hist>>
    /\ UNCHANGED <<ops, destroy>>

\* Mutant: the entry found is promoted under the read lock.
get_rdunlock_promote(t) ==
    /\ pc[t] = "get_rdunlock"
    /\ cache' = dll_push_head(dll_remove(cache, cur[t]), cur[t])
    /\ readers' = readers \ {t}
    /\ pc' = [pc EXCEPT ![t] = "get_wrlock"]
    /\ UNCHANGED <<writer, key, value, cur, n, rc, rv, pre, hist>>
    /\ UNCHANGED <<ops, destroy>>

\* "pthread_rwlock_unlock(&cache->lock);" before the write lock is asked for.
get_rdunlock(t) ==
    /\ pc[t] = "get_rdunlock"
    /\ readers' = readers \ {t}
    /\ pc' = [pc EXCEPT ![t] = "get_wrlock"]
    /\ UNCHANGED <<cache, writer, key, value, cur, n, rc, rv, pre, hist>>
    /\ UNCHANGED <<ops, destroy>>

\* Mutant: no second scan; the entry found under the read lock is used.
get_wrlock_norescan(t) ==
    /\ pc[t] = "get_wrlock"
    /\ CanWrLock
    /\ writer' = t
    /\ pc' = [pc EXCEPT ![t] = "get_promote"]
    /\ lastPut' = IF lastPut.getter = t THEN lastPut ELSE NoPut
    /\ UNCHANGED <<cache, readers, key, value, cur, n, rc, rv, pre, touch, acc,
                   deleted, track>>
    /\ UNCHANGED <<ops, destroy>>

\* pthread_rwlock_wrlock returns and the second scan is made under the
\* write lock.
get_wrlock(t) ==
    /\ pc[t] = "get_wrlock"
    /\ CanWrLock
    /\ writer' = t
    /\ cur' = [cur EXCEPT ![t] = lookup(cache, key[t])]
    /\ pc' = [pc EXCEPT ![t] = IF lookup(cache, key[t]) # NULL
                               THEN "get_promote" ELSE "get_miss2"]
    /\ lastPut' = IF lastPut.getter = t THEN lastPut ELSE NoPut
    /\ UNCHANGED <<cache, readers, key, value, n, rc, rv, pre, touch, acc, deleted, track>>
    /\ UNCHANGED <<ops, destroy>>

\* Mutant: the node found is left where it is.
get_promote_body_nomove(c, p) == c

\* "dll_remove(cache, cur); dll_push_head(cache, cur);"
get_promote_body(c, p) == dll_push_head(dll_remove(c, p), p)

\* The promotion, and strdup(cur->value) succeeds.
get_promote(t) ==
    /\ pc[t] = "get_promote"
    /\ cache' = get_promote_body(cache, cur[t])
    /\ rv' = [rv EXCEPT ![t] = cache'.node[cur[t]].value]
    /\ pc' = [pc EXCEPT ![t] = "get_unlock"]
    /\ UNCHANGED <<writer, readers, key, value, cur, n, rc, pre, hist>>
    /\ UNCHANGED <<ops, destroy>>

\* The promotion, and strdup(cur->value) returns NULL.
get_promote_nomem(t) ==
    /\ pc[t] = "get_promote"
    /\ cache' = get_promote_body(cache, cur[t])
    /\ rv' = [rv EXCEPT ![t] = NullStr]
    /\ pc' = [pc EXCEPT ![t] = "get_unlock"]
    /\ UNCHANGED <<writer, readers, key, value, cur, n, rc, pre, hist>>
    /\ UNCHANGED <<ops, destroy>>

\* "pthread_rwlock_unlock(&cache->lock); return ret;"
get_unlock(t) ==
    /\ pc[t] = "get_unlock"
    /\ WrUnlockReturn(t)
    /\ touch' = MoveFront(touch, key[t])
    /\ acc' = IF rv[t] # NullStr /\ "acc" \in track
              THEN MoveFront(acc, key[t]) ELSE acc
    /\ lastPut' = NoPut
    /\ UNCHANGED <<deleted, track>>
    /\ UNCHANGED <<ops, destroy>>

\* The second scan found nothing: "pthread_rwlock_unlock(...); return NULL;"
get_miss2(t) ==
    /\ pc[t] = "get_miss2"
    /\ WrUnlockReturn(t)
    /\ lastPut' = NoPut
    /\ UNCHANGED <<touch, acc, deleted, track>>
    /\ UNCHANGED <<ops, destroy>>

\* ------------------------------------------------------------------ cache_delete
\* "if (!cache || !key) return -1;"
delete_inval(t) ==
    /\ pc[t] = "idle"
    /\ CallBegins(t)
    /\ pc' = [pc EXCEPT ![t] = "delete_inval"]
    /\ rc' = [rc EXCEPT ![t] = -1]
    /\ UNCHANGED <<cache, writer, readers, key, value, cur, n, rv, pre, hist>>
    /\ UNCHANGED destroy

delete_inval_return(t) ==
    /\ pc[t] = "delete_inval"
    /\ Return(t)
    /\ UNCHANGED <<cache, writer, readers, pre, hist>>
    /\ UNCHANGED <<ops, destroy>>

\* The call with a valid key: pthread_rwlock_wrlock returns and the key's
\* chain is scanned.
delete_wrlock(t) ==
    /\ pc[t] = "idle"
    /\ CallBegins(t)
    /\ CanWrLock
    /\ \E k \in Keys :
          /\ key' = [key EXCEPT ![t] = k]
          /\ cur' = [cur EXCEPT ![t] = lookup(cache, k)]
          /\ pc' = [pc EXCEPT ![t] = IF lookup(cache, k) # NULL
                                     THEN "delete_unlink" ELSE "delete_miss"]
    /\ writer' = t
    /\ OtherCallBegins
    /\ UNCHANGED <<cache, readers, value, n, rc, rv, pre, touch, acc, deleted, track>>
    /\ UNCHANGED destroy

\* Mutant: the delete that finds nothing decrements size all the same.
delete_miss_size(t) ==
    /\ pc[t] = "delete_miss"
    /\ cache' = [cache EXCEPT !.size = cache.size - 1]
    /\ rc' = [rc EXCEPT ![t] = 1]
    /\ pc' = [pc EXCEPT ![t] = "delete_unlock"]
    /\ UNCHANGED <<writer, readers, key, value, cur, n, rv, pre, hist>>
    /\ UNCHANGED <<ops, destroy>>

\* "if (!cur) { pthread_rwlock_unlock(&cache->lock); return 1; }"
delete_miss(t) ==
    /\ pc[t] = "delete_miss"
    /\ rc' = [rc EXCEPT ![t] = 1]
    /\ pc' = [pc EXCEPT ![t] = "delete_unlock"]
    /\ UNCHANGED <<cache, writer, readers, key, value, cur, n, rv, pre, hist>>
    /\ UNCHANGED <<ops, destroy>>

\* Mutant: size is not decremented.
delete_body_nosize(c, k) ==
    LET p == lookup(c, k)
        q == lookup_prev(c, k)
        hv == hash_str(k) % c.hsize
        c1 == IF q # NULL
              THEN [c EXCEPT !.node[q].hnext = c.node[p].hnext]
              ELSE [c EXCEPT !.htable[hv] = c.node[p].hnext]
    IN  node_free(dll_remove(c1, p), p)

\* Mutant: the node leaves the recency list but stays in its bucket's chain.
delete_body_keephash(c, k) ==
    LET c2 == dll_remove(c, lookup(c, k))
    IN  [c2 EXCEPT !.size = c2.size - 1]

\* "if (prev) prev->hnext = cur->hnext; else cache->htable[hv] = cur->hnext;
\*  dll_remove(cache, cur); node_free(cur); cache->size--;"
delete_body(c, k) ==
    LET p == lookup(c, k)
        q == lookup_prev(c, k)
        hv == hash_str(k) % c.hsize
        c1 == IF q # NULL
              THEN [c EXCEPT !.node[q].hnext = c.node[p].hnext]
              ELSE [c EXCEPT !.htable[hv] = c.node[p].hnext]
        c2 == node_free(dll_remove(c1, p), p)
    IN  [c2 EXCEPT !.size = c2.size - 1]

delete_unlink(t) ==
    /\ pc[t] = "delete_unlink"
    /\ cache' = delete_body(cache, key[t])
    /\ rc' = [rc EXCEPT ![t] = 0]
    /\ pc' = [pc EXCEPT ![t] = "delete_unlock"]
    /\ UNCHANGED <<writer, readers, key, value, cur, n, rv, pre, hist>>
    /\ UNCHANGED <<ops, destroy>>

\* "pthread_rwlock_unlock(&cache->lock); return 0;" (or return 1)
delete_unlock(t) ==
    /\ pc[t] = "delete_unlock"
    /\ WrUnlockReturn(t)
    /\ touch' = IF rc[t] = 0 THEN SeqRemove(touch, key[t]) ELSE touch
    /\ acc' = IF rc[t] = 0 THEN SeqRemove(acc, key[t]) ELSE acc
    /\ deleted' = IF rc[t] = 0 /\ "deleted" \in track
                  THEN deleted \cup {key[t]} ELSE deleted
    /\ lastPut' = NoPut
    /\ UNCHANGED track
    /\ UNCHANGED <<ops, destroy>>

\* ------------------------------------------------------------------ cache_destroy
\* main calls cache_destroy once it has joined every thread:
\* "pthread_rwlock_wrlock(&cache->lock);" and the loop begins at bucket 0.
cache_destroy_wrlock ==
    /\ destroy.pc = "none"
    /\ Joined
    /\ CanWrLock
    /\ writer' = MainThread
    /\ destroy' = [destroy EXCEPT !.pc = "walk", !.i = 0, !.cur = cache.htable[0]]
    /\ UNCHANGED <<cache, readers, pc, key, value, cur, n, rc, rv, pre, hist, ops>>

\* Mutant: the walk of a chain stops after its first node.
destroy_nx_stop(c, p) == NULL

\* "node *nx = cur->hnext;"
destroy_nx(c, p) == c.node[p].hnext

\* "while (cur) { node *nx = cur->hnext; node_free(cur); cur = nx; }"
cache_destroy_free ==
    /\ destroy.pc = "walk"
    /\ destroy.cur # NULL
    /\ cache' = node_free(cache, destroy.cur)
    /\ destroy' = [destroy EXCEPT !.cur = destroy_nx(cache, destroy.cur),
                                  !.freed[destroy.cur] = @ + 1]
    /\ UNCHANGED <<writer, readers, pc, key, value, cur, n, rc, rv, pre, hist, ops>>

\* "for (...; i < cache->hsize; ++i) { node *cur = cache->htable[i];"
cache_destroy_next ==
    /\ destroy.pc = "walk"
    /\ destroy.cur = NULL
    /\ destroy.i + 1 < cache.hsize
    /\ destroy' = [destroy EXCEPT !.i = destroy.i + 1,
                                  !.cur = cache.htable[destroy.i + 1]]
    /\ UNCHANGED <<cache, writer, readers, pc, key, value, cur, n, rc, rv, pre,
                   hist, ops>>

\* The loop is over: "free(cache->htable); pthread_rwlock_unlock(&cache->lock);
\* pthread_rwlock_destroy(&cache->lock); free(cache);".  No thread is left to
\* run between these statements.  pre keeps the cache as it was handed over.
cache_destroy_finish ==
    /\ destroy.pc = "walk"
    /\ destroy.cur = NULL
    /\ destroy.i + 1 >= cache.hsize
    /\ writer = MainThread
    /\ writer' = NoThread
    /\ destroy' = [destroy EXCEPT !.pc = "done",
                                  !.htable_freed = @ + 1,
                                  !.cache_freed = @ + 1,
                                  !.lock_destroyed = TRUE]
    /\ UNCHANGED <<cache, readers, pc, key, value, cur, n, rc, rv, pre, hist, ops>>

\* Every step thread t can take.
ThreadStep(t) ==
    \/ put_inval(t) \/ put_inval_return(t) \/ put_wrlock(t)
    \/ put_update_nomem(t) \/ put_update(t)
    \/ put_create_nomem(t) \/ put_create(t) \/ put_insert(t)
    \/ put_evict(t) \/ put_unlock(t)
    \/ get_inval(t) \/ get_inval_return(t) \/ get_rdlock(t) \/ get_miss1(t)
    \/ get_rdunlock(t) \/ get_wrlock(t) \/ get_promote(t)
    \/ get_promote_nomem(t) \/ get_unlock(t) \/ get_miss2(t)
    \/ delete_inval(t) \/ delete_inval_return(t) \/ delete_wrlock(t)
    \/ delete_miss(t) \/ delete_unlink(t) \/ delete_unlock(t)

\* Every step main can take.
MainStep ==
    \/ cache_destroy_wrlock \/ cache_destroy_free
    \/ cache_destroy_next \/ cache_destroy_finish

Next ==
    \/ cache_destroy_wrlock
    \/ cache_destroy_free
    \/ cache_destroy_next
    \/ cache_destroy_finish
    \/ \E t \in Threads :
            \/ put_inval(t)
            \/ put_inval_return(t)
            \/ put_wrlock(t)
            \/ put_update_nomem(t)
            \/ put_update(t)
            \/ put_create_nomem(t)
            \/ put_create(t)
            \/ put_insert(t)
            \/ put_evict(t)
            \/ put_unlock(t)
            \/ get_inval(t)
            \/ get_inval_return(t)
            \/ get_rdlock(t)
            \/ get_miss1(t)
            \/ get_rdunlock(t)
            \/ get_wrlock(t)
            \/ get_promote(t)
            \/ get_promote_nomem(t)
            \/ get_unlock(t)
            \/ get_miss2(t)
            \/ delete_inval(t)
            \/ delete_inval_return(t)
            \/ delete_wrlock(t)
            \/ delete_miss(t)
            \/ delete_unlink(t)
            \/ delete_unlock(t)

Spec == Init /\ [][Next]_vars
SpecAcc == InitAcc /\ [][Next]_vars
SpecDel == InitDel /\ [][Next]_vars
\* Each thread makes MaxOps calls; the scheduler lets every thread that can
\* run do so eventually.
SpecOps ==
    /\ InitOps
    /\ [][Next]_vars
    /\ \A t \in Threads : WF_vars(ThreadStep(t))
    /\ WF_vars(MainStep)

\* ================================================================== claims
\* No thread holds the write lock, and the cache has not been destroyed.
Quiescent == writer = NoThread /\ destroy.pc = "none"

\* The nodes reachable through the bucket chains.
HashNodes(c) == UNION {Range(ChainNodes(c, hv)) : hv \in 0..(c.hsize - 1)}
\* The nodes reachable walking the recency list from head.
ListSet(c) == Range(ListNodes(c))

RECURSIVE SumChains(_, _)
SumChains(c, hv) ==
    IF hv < 0 THEN 0 ELSE Len(ChainNodes(c, hv)) + SumChains(c, hv - 1)

\* C2: between the scan of a get that finds the key and its promotion no
\* other thread's put, delete or eviction takes the key away, so a get whose
\* scan found the key never returns not-found.
C2_GetFoundNeverMisses ==
    \A t \in Threads :
        /\ pc[t] \in {"get_rdunlock", "get_wrlock"} => lookup(cache, key[t]) # NULL
        /\ pc[t] # "get_miss2"

\* C3: whenever no thread holds the write lock, size <= capacity; size is
\* never more than capacity + 1, and it exceeds capacity only inside put's
\* critical section, between the insertion and the eviction.
C3_CapacityBound ==
    /\ Quiescent => cache.size <= cache.capacity
    /\ cache.size <= cache.capacity + 1
    /\ cache.size > cache.capacity =>
          \E t \in Threads : writer = t /\ pc[t] = "put_evict"

\* A put has inserted into a full cache of the largest capacity.
C3_Witness ==
    \E t \in Threads : /\ pc[t] = "put_evict"
                       /\ cache.capacity = MaxCapacity
                       /\ cache.size = cache.capacity + 1

\* C4: whenever no thread holds the write lock, the entries reachable through
\* the bucket chains are the entries reachable through the recency list, the
\* keys a scan finds are the keys of the list, and no two entries share a key.
C4_Bijection ==
    Quiescent =>
        /\ HashNodes(cache) = ListSet(cache)
        /\ LiveKeys(cache) = {cache.node[p].key : p \in ListSet(cache)}
        /\ \A p, q \in HashNodes(cache) \cup ListSet(cache) :
               cache.node[p].key = cache.node[q].key => p = q

\* Two entries share a bucket, and one has been removed from a chain before.
C4_Witness ==
    /\ Quiescent
    /\ \E hv \in 0..(cache.hsize - 1) : Len(ChainNodes(cache, hv)) = 2
    /\ \E a \in Addrs : ~cache.node[a].live /\ a < cache.head

\* C5: whenever no thread holds the write lock, size is the number of nodes of
\* the recency list and the number of entries of all bucket chains.
C5_SizeAccounting ==
    Quiescent =>
        /\ cache.size = Len(ListNodes(cache))
        /\ cache.size = SumChains(cache, cache.hsize - 1)

\* The cache is full at the largest capacity after an entry was freed.
C5_Witness ==
    /\ Quiescent
    /\ cache.size = MaxCapacity
    /\ \E a \in Addrs : ~cache.node[a].live /\ a < cache.tail

\* ------------------------------------------------------------------ C1
\* The atomic LRU map the calls are compared with: a sequence of <<key,
\* value>> pairs, most recently used first.
AbsKeys(m) == {m[i][1] : i \in 1..Len(m)}
AbsValue(m, k) == (CHOOSE i \in 1..Len(m) : m[i][1] = k)
AbsRemove(m, k) == SeqKeep(m, {x \in Range(m) : x[1] # k})
AbsPut(m, capacity, k, v) ==
    LET m1 == <<(<<k, v>>)>> \o AbsRemove(m, k)
    IN  IF Len(m1) > capacity THEN SubSeq(m1, 1, capacity) ELSE m1
AbsGet(m, k) ==
    IF k \in AbsKeys(m) THEN <<m[AbsValue(m, k)]>> \o AbsRemove(m, k) ELSE m
AbsGetValue(m, k) ==
    IF k \in AbsKeys(m) THEN m[AbsValue(m, k)][2] ELSE NullStr

\* What every call but a get that found its key leaves behind and returns.
LinearizableElsewhere(t) ==
    /\ pc[t] = "put_unlock" =>
          \/ /\ rc[t] = 0
             /\ View(cache) = AbsPut(View(pre), cache.capacity, key[t], value[t])
          \/ /\ rc[t] = -1
             /\ View(cache) = View(pre)
    /\ pc[t] = "get_miss2" =>
          /\ key[t] \notin AbsKeys(View(pre))
          /\ View(cache) = View(pre)
    /\ pc[t] = "get_miss1" => key[t] \notin AbsKeys(View(cache))
    /\ pc[t] = "delete_unlock" =>
          \/ /\ rc[t] = 0
             /\ key[t] \in AbsKeys(View(pre))
             /\ View(cache) = AbsRemove(View(pre), key[t])
          \/ /\ rc[t] = 1
             /\ key[t] \notin AbsKeys(View(pre))
             /\ View(cache) = View(pre)
    /\ pc[t] \in {"put_update", "put_create", "put_insert", "put_evict",
                  "put_unlock", "get_promote", "get_unlock", "get_miss2",
                  "delete_miss", "delete_unlink", "delete_unlock"} => writer = t
    /\ pc[t] \in {"get_miss1", "get_rdunlock"} => t \in readers

\* C1: every critical section takes the cache, seen as an LRU map, from its
\* state on entry to the state the atomic operation gives, and returns what
\* the atomic operation returns (a failing call returns the failure value and
\* leaves the map as it was); critical sections exclude one another, and the
\* cache changes inside them only.
C1_Linearizable ==
    /\ readers # {} => writer = NoThread
    /\ Quiescent => cache = pre
    /\ \A t \in Threads :
          /\ LinearizableElsewhere(t)
          /\ pc[t] = "get_unlock" =>
                \/ /\ key[t] \in AbsKeys(View(pre))
                   /\ rv[t] = AbsGetValue(View(pre), key[t])
                   /\ View(cache) = AbsGet(View(pre), key[t])
                \/ /\ rv[t] = NullStr
                   /\ View(cache) = View(pre)

\* The same, with a get whose value copy fails allowed to have promoted its
\* entry before it returns NULL.
C1_LinearizableApartFromFailedCopy ==
    /\ readers # {} => writer = NoThread
    /\ Quiescent => cache = pre
    /\ \A t \in Threads :
          /\ LinearizableElsewhere(t)
          /\ pc[t] = "get_unlock" =>
                /\ key[t] \in AbsKeys(View(pre))
                /\ rv[t] \in {AbsGetValue(View(pre), key[t]), NullStr}
                /\ View(cache) = AbsGet(View(pre), key[t])

\* ------------------------------------------------------------------ C6
\* C6: a put that inserts a new key into a full cache evicts exactly one
\* entry, the live entry whose last successful access is the oldest; a put
\* into a cache that is not full evicts nothing.
C6_LruEviction ==
    \A t \in Threads :
        pc[t] = "put_unlock" /\ rc[t] = 0 =>
            /\ key[t] \in LiveKeys(cache)
            /\ pre.size < pre.capacity => LiveKeys(pre) \subseteq LiveKeys(cache)
            /\ key[t] \notin LiveKeys(pre) /\ pre.size = pre.capacity =>
                  /\ acc # <<>>
                  /\ LiveKeys(pre) \ LiveKeys(cache) = {acc[Len(acc)]}

UpsertDone(t) ==
    /\ rc[t] = 0
    /\ cache.node[cur[t]].value = value[t]
    /\ cache.node[cur[t]].key = key[t]
    /\ cache.size = pre.size
    /\ ListSet(cache) = ListSet(pre)
    /\ HashNodes(cache) = HashNodes(pre)
    /\ LiveKeys(cache) = LiveKeys(pre)

\* C8 as claimed: a put on a key that is present replaces the value, leaves
\* size and the set of entries as they were and returns 0.
C8_Upsert ==
    \A t \in Threads :
        pc[t] = "put_unlock" /\ key[t] \in LiveKeys(pre) => UpsertDone(t)

\* C8 as amended: it does so unless the copy of the value cannot be
\* allocated; then it returns -1 and the cache is as it was.
C8_UpsertUnlessNoMemory ==
    \A t \in Threads :
        pc[t] = "put_unlock" /\ key[t] \in LiveKeys(pre) =>
            \/ UpsertDone(t)
            \/ rc[t] = -1 /\ cache = pre

\* A put has replaced a different value of an entry that was not the head.
C8_Witness ==
    \E t \in Threads : /\ pc[t] = "put_unlock"
                       /\ rc[t] = 0
                       /\ key[t] \in LiveKeys(pre)
                       /\ pre.node[cur[t]].value # value[t]
                       /\ pre.head # cur[t]

\* ------------------------------------------------------------------ C9
GetReturns(t) == pc[t] \in {"get_miss1", "get_unlock", "get_miss2"}

\* C9 as claimed: the get that follows a successful put(k, v), with no other
\* call in between, returns v.
C9_ReadYourWrite ==
    \A t \in Threads :
        lastPut.getter = t /\ GetReturns(t) =>
            pc[t] = "get_unlock" /\ rv[t] = lastPut.value

\* C9 as amended: that get finds the entry, whose value is v, in both scans
\* and returns v, unless its copy of the value cannot be allocated: then it
\* returns NULL.
C9_ReadYourWriteUnlessNoMemory ==
    \A t \in Threads :
        lastPut.getter = t /\ GetReturns(t) =>
            /\ pc[t] = "get_unlock"
            /\ key[t] = lastPut.key
            /\ cache.node[cur[t]].value = lastPut.value
            /\ rv[t] \in {lastPut.value, NullStr}

\* The get that follows a put into a cache of capacity 1 returns the value.
C9_Witness ==
    \E t \in Threads : /\ pc[t] = "get_unlock"
                       /\ lastPut.getter = t
                       /\ rv[t] = lastPut.value
                       /\ cache.capacity = 1

\* ------------------------------------------------------------------ C10
\* C10: when delete(k) returns 0 the entry is in neither structure and size is
\* one less; from then until a put of k succeeds no scan finds k, every get(k)
\* returns NULL and every delete(k) returns 1.
C10_DeleteThenLookup ==
    /\ \A t \in Threads :
          pc[t] = "delete_unlock" /\ rc[t] = 0 =>
              /\ lookup(cache, key[t]) = NULL
              /\ cur[t] \notin HashNodes(cache) \cup ListSet(cache)
              /\ \A p \in ListSet(cache) : cache.node[p].key # key[t]
              /\ cache.size = pre.size - 1
              /\ Len(ListNodes(cache)) = Len(ListNodes(pre)) - 1
    /\ \A t \in Threads :
          key[t] \in deleted =>
              /\ pc[t] \notin {"get_rdunlock", "get_promote", "get_unlock",
                               "delete_unlink"}
              /\ pc[t] \in {"get_miss1", "get_miss2"} => rv[t] = NullStr
              /\ pc[t] = "delete_unlock" => rc[t] = 1
    /\ Quiescent => \A k \in deleted : lookup(cache, k) = NULL

\* A get whose first scan found the key misses it after a delete.
C10_Witness ==
    \E t \in Threads : pc[t] = "get_miss2" /\ key[t] \in deleted

\* ------------------------------------------------------------------ C11
\* A step of thread t on a path of get or delete that ends in not-found: the
\* two scans of a get and the releases around them, its two not-found
\* returns, and the scan and the return of a delete that finds nothing.
NotFoundStep(t) ==
    /\ pc'[t] # pc[t]
    /\ \/ pc[t] \in {"get_miss1", "get_rdunlock", "get_wrlock", "get_miss2",
                     "delete_miss"}
       \/ pc'[t] \in {"get_miss1", "get_rdunlock", "get_miss2", "delete_miss"}
       \/ pc[t] = "delete_unlock" /\ rc[t] = 1

\* C11: no step of a get or a delete that reports not-found changes the cache
\* (chains, recency order, values, size), the get whose key disappears
\* between its two scans included.
C11_NotFoundNoMutation ==
    [][\A t \in Threads : NotFoundStep(t) => cache' = cache]_vars

\* A get whose first scan found the key misses it in the second, on a cache
\* that is not empty.
C11_Witness ==
    \E t \in Threads : pc[t] = "get_miss2" /\ cache.size > 0

\* ------------------------------------------------------------------ C12
\* C12: a put or a get in which an allocation fails reports failure and
\* leaves the cache exactly as it was before the call.
C12_AllocFailureNoEffect ==
    \A t \in Threads :
        /\ pc[t] = "put_unlock" /\ rc[t] = -1 => cache = pre
        /\ pc[t] = "get_unlock" /\ rv[t] = NullStr => cache = pre

\* The part of C12 that the code keeps: a put in which an allocation fails
\* returns -1 with the cache as it was.
C12_PutAllocFailureNoEffect ==
    \A t \in Threads : pc[t] = "put_unlock" /\ rc[t] = -1 => cache = pre

\* ------------------------------------------------------------------ C13
\* What cache_get is about to return at each of its return statements.
GetReturnValue(t) ==
    IF pc[t] \in {"get_miss1", "get_miss2", "get_inval"} THEN NullStr ELSE rv[t]

GetNotFound(t) == pc[t] \in {"get_miss1", "get_miss2"}
\* The key argument is null, or the copy of the value could not be allocated.
GetFailed(t) ==
    \/ pc[t] = "get_inval"
    \/ pc[t] = "get_unlock" /\ rv[t] = NullStr
DeleteNotFound(t) == pc[t] = "delete_unlock" /\ lookup(pre, key[t]) = NULL
DeleteFailed(t) == pc[t] = "delete_inval"

\* C13: the value a get or a delete returns for an absent key is never the
\* value it returns for a failure.
C13_NotFoundDistinct ==
    \A t, u \in Threads :
        /\ GetNotFound(t) /\ GetFailed(u) => GetReturnValue(t) # GetReturnValue(u)
        /\ DeleteNotFound(t) /\ DeleteFailed(u) => rc[t] # rc[u]

\* The part of C13 that the code keeps: delete returns 1 for an absent key
\* and -1 for a null argument.
C13_DeleteNotFoundDistinct ==
    \A t, u \in Threads :
        DeleteNotFound(t) /\ DeleteFailed(u) => rc[t] = 1 /\ rc[u] = -1

\* ------------------------------------------------------------------ C14
\* Thread t cannot go on while the lock is held as it is: it waits for the
\* write lock in get, or it is between two calls and the next one may need
\* the lock for writing.
Blocked(t) == pc[t] \in {"idle", "get_wrlock"} /\ ~CanWrLock

\* While a thread is unfinished, an unfinished thread that is not blocked can
\* take a step.
NoDeadlock ==
    (\E t \in Threads : ~Finished(t)) =>
        \E t \in Threads : ~Finished(t) /\ ~Blocked(t) /\ ENABLED ThreadStep(t)

\* C14: with each thread making MaxOps calls, under fair scheduling, no
\* reachable state has every unfinished thread blocked on the lock, and every
\* thread ends with all its calls returned.
C14_Termination ==
    /\ []NoDeadlock
    /\ \A t \in Threads : <>[]Finished(t)

\* A get that has released the read lock waits for the write lock, which
\* another thread holds, in the last call of both threads.
C14_Witness ==
    \E t, u \in Threads : /\ pc[t] = "get_wrlock"
                          /\ writer = u
                          /\ ops[t] = MaxOps
                          /\ ops[u] = MaxOps

\* ------------------------------------------------------------------ C15
\* The entries that are live in cache c.
LiveNodes(c) == {a \in Addrs : c.node[a].live}

\* C15: cache_destroy, called with no call in flight, frees every entry that
\* was live (the entries of the bucket chains) once and no other, leaves no
\* entry live, and frees the bucket array and the cache once each, with the
\* lock released and destroyed.
C15_DestroyFreesOnce ==
    /\ destroy.pc # "none" =>
          /\ \A t \in Threads : pc[t] = "idle"
          /\ LiveNodes(pre) = HashNodes(pre)
          /\ \A a \in Addrs : destroy.freed[a] <= 1
          /\ \A a \in Addrs : destroy.freed[a] = 1 => a \in LiveNodes(pre)
          /\ \A a \in LiveNodes(pre) : destroy.freed[a] = 0 <=> cache.node[a].live
    /\ destroy.pc = "walk" =>
          /\ writer = MainThread
          /\ destroy.htable_freed = 0
          /\ destroy.cache_freed = 0
          /\ destroy.cur # NULL => cache.node[destroy.cur].live
    /\ destroy.pc = "done" =>
          /\ \A a \in Addrs : destroy.freed[a] = IF a \in LiveNodes(pre) THEN 1 ELSE 0
          /\ LiveNodes(cache) = {}
          /\ destroy.htable_freed = 1
          /\ destroy.cache_freed = 1
          /\ destroy.lock_destroyed
          /\ writer = NoThread

\* A full cache of the largest capacity with two entries in one bucket has
\* been destroyed.
C15_Witness ==
    /\ destroy.pc = "done"
    /\ pre.size = MaxCapacity
    /\ \E hv \in 0..(pre.hsize - 1) : Len(ChainNodes(pre, hv)) = 2

\* ------------------------------------------------------------------ C16
\* The cache is empty: size 0, no head, no tail, every bucket empty.
EmptyCache(c) ==
    /\ c.size = 0
    /\ c.head = NULL
    /\ c.tail = NULL
    /\ \A i \in DOMAIN c.htable : c.htable[i] = NULL
    /\ \A a \in Addrs : ~c.node[a].live

\* Capacity is at least 1 and there are 2 * capacity + 1 buckets.
Geometry(c) ==
    /\ c.capacity >= 1
    /\ c.hsize = 2 * c.capacity + 1
    /\ DOMAIN c.htable = 0..(c.hsize - 1)

\* What cache_create(capacity) returns is a new, empty cache of that capacity
\* with 2 * capacity + 1 buckets.
Created(c, capacity) ==
    /\ c # NullCache
    /\ c.capacity = capacity
    /\ EmptyCache(c)
    /\ Geometry(c)

\* Every run begins with an empty cache; no step changes capacity or bucket
\* count.
GeometryKept ==
    /\ EmptyCache(cache)
    /\ []Geometry(cache)
    /\ [][/\ cache'.capacity = cache.capacity
          /\ cache'.hsize = cache.hsize
          /\ DOMAIN cache'.htable = DOMAIN cache.htable]_vars

\* C16 as claimed: cache_create(0) fails; cache_create(capacity) with
\* capacity >= 1 gives an empty cache of that capacity with 2 * capacity + 1
\* buckets; and no put, get or delete changes capacity or bucket count.
C16_FixedGeometry ==
    /\ \A callocs \in Callocs :
          /\ cache_create(0, callocs) = NullCache
          /\ \A capacity \in 1..(MaxCapacity + 1) :
                Created(cache_create(capacity, callocs), capacity)
    /\ GeometryKept

\* C16 as amended: cache_create(capacity) with capacity >= 1 gives that cache
\* unless one of its two allocations fails; then it returns NULL, as it does
\* for capacity 0.
C16_FixedGeometryUnlessNoMemory ==
    /\ \A callocs \in Callocs :
          /\ cache_create(0, callocs) = NullCache
          /\ \A capacity \in 1..(MaxCapacity + 1) :
                IF callocs = 2
                THEN Created(cache_create(capacity, callocs), capacity)
                ELSE cache_create(capacity, callocs) = NullCache
    /\ GeometryKept

\* A cache of capacity 1, which has 3 buckets, holds an entry that came in
\* by an eviction, and a key of another bucket was looked up.
C16_Witness ==
    /\ cache.capacity = 1
    /\ cache.hsize = 3
    /\ cache.size = 1
    /\ cache.head = 2
    /\ \E t \in Threads :
          /\ pc[t] \in {"get_miss1", "delete_miss"}
          /\ hash_str(key[t]) % cache.hsize # hash_str(cache.node[2].key) % cache.hsize

\* ------------------------------------------------------------------ C17
\* Where a thread is between pthread_rwlock_wrlock and the unlock that
\* follows it, and where it is between pthread_rwlock_rdlock and its unlock.
WrHeld == {"put_update", "put_create", "put_insert", "put_evict", "put_unlock",
           "get_promote", "get_unlock", "get_miss2",
           "delete_miss", "delete_unlink", "delete_unlock"}
RdHeld == {"get_miss1", "get_rdunlock"}

\* A step in which thread t takes the lock, and one in which it releases it.
Acquires(t) ==
    \/ writer # t /\ writer' = t
    \/ t \notin readers /\ t \in readers'
Releases(t) ==
    \/ writer = t /\ writer' # t
    \/ t \in readers /\ t \notin readers'

\* C17: a thread holds the lock exactly between an acquire and the release
\* of its call: a thread that has returned, or is returning for an invalid
\* argument, holds neither lock; every acquire is made holding nothing and
\* every release is made by the holder, inside a call, on every path.
C17_LockReleased ==
    /\ [](\A t \in Threads :
             /\ writer = t <=> pc[t] \in WrHeld
             /\ t \in readers <=> pc[t] \in RdHeld)
    /\ [][\A t \in Threads :
             /\ Acquires(t) => writer # t /\ t \notin readers
             /\ Releases(t) => writer' # t /\ t \notin readers'
             /\ pc'[t] = "idle" /\ pc[t] # "idle" =>
                   writer' # t /\ t \notin readers']_vars

\* A put whose allocation failed is about to release the write lock; the
\* other thread is between two calls and no thread holds the read lock.
C17_Witness ==
    \E t, u \in Threads : /\ pc[t] = "put_unlock"
                          /\ rc[t] = -1
                          /\ writer = t
                          /\ pc[u] = "idle"
                          /\ readers = {}

\* ------------------------------------------------------------------ C18
\* C18: whenever no thread holds the write lock, head is absent iff tail is
\* absent iff size is 0; otherwise head has no prev, tail has no next, the
\* walk along next from head ends at tail and meets every live entry once,
\* and n.next.prev = n for every entry n that has a next.
C18_ListWellFormed ==
    Quiescent =>
        /\ cache.head = NULL <=> cache.tail = NULL
        /\ cache.head = NULL <=> cache.size = 0
        /\ cache.head # NULL =>
              /\ cache.node[cache.head].prev = NULL
              /\ cache.node[cache.tail].next = NULL
              /\ ListNodes(cache)[Len(ListNodes(cache))] = cache.tail
        /\ Len(ListNodes(cache)) = Cardinality(ListSet(cache))
        /\ ListSet(cache) = LiveNodes(cache)
        /\ \A p \in ListSet(cache) :
              /\ cache.node[p].next # NULL =>
                    cache.node[cache.node[p].next].prev = p
              /\ cache.node[p].prev # NULL =>
                    cache.node[cache.node[p].prev].next = p

\* A list of two entries whose tail was created after its head: the older
\* entry was moved to the head.
C18_Witness ==
    /\ Quiescent
    /\ cache.size = 2
    /\ cache.head # NULL
    /\ cache.tail > cache.head
    /\ cache.node[cache.head].next = cache.tail

\* ------------------------------------------------------------------ C19
\* C19: the lock is held for writing by one thread with no reader beside it;
\* every step that changes the cache (a bucket head, a link, head, tail,
\* size, a value, an entry freed) is a step of the thread that holds the
\* write lock before and after it, with no reader; and no step of a thread
\* that holds or takes the read lock changes the cache.
C19_WritesUnderWriteLock ==
    /\ [](writer # NoThread => readers = {})
    /\ [][cache' # cache =>
             /\ writer # NoThread
             /\ writer' = writer
             /\ readers = {}
             /\ readers' = {}
             /\ IF writer = MainThread THEN destroy' # destroy
                ELSE pc'[writer] # pc[writer]
             /\ \A t \in Threads \ {writer} : pc'[t] = pc[t]]_vars
    /\ [][\A t \in Threads :
             pc'[t] # pc[t] /\ (t \in readers \/ t \in readers') =>
                 cache' = cache]_vars

\* The holder of the write lock has changed the cache while the other thread,
\* done with its scan under the read lock, waits for the write lock.
C19_Witness ==
    \E t, u \in Threads : /\ writer = t
                          /\ cache # pre
                          /\ pc[u] = "get_wrlock"

\* ------------------------------------------------------------------ C20
\* Every pointer kept in cache c (bucket heads, head, tail, the links of the
\* live entries) is null or points to a live entry.
NoDanglingLinks(c) ==
    /\ \A i \in DOMAIN c.htable : c.htable[i] # NULL => c.node[c.htable[i]].live
    /\ c.head # NULL => c.node[c.head].live
    /\ c.tail # NULL => c.node[c.tail].live
    /\ \A a \in LiveNodes(c) :
          /\ c.node[a].prev # NULL => c.node[c.node[a].prev].live
          /\ c.node[a].next # NULL => c.node[c.node[a].next].live
          /\ c.node[a].hnext # NULL => c.node[c.node[a].hnext].live

\* C20: until main destroys the cache, which it does once the threads have
\* finished, no scan or list operation can meet a freed entry, and the entry
\* a thread is about to read or write through its own pointer is live: the
\* one found by the scan made under the write lock it still holds (in get,
\* the second scan), or the one it has just created.  The walk of
\* cache_destroy reads live entries only.
C20_NoUseAfterFree ==
    /\ destroy.pc = "none" =>
          /\ NoDanglingLinks(cache)
          /\ \A t \in Threads :
                /\ pc[t] \in {"put_update", "get_promote", "delete_unlink"} =>
                      /\ writer = t
                      /\ cur[t] # NULL
                      /\ cache.node[cur[t]].live
                      /\ cur[t] = lookup(cache, key[t])
                /\ pc[t] = "put_insert" =>
                      /\ writer = t
                      /\ n[t] # NULL
                      /\ cache.node[n[t]].live
    /\ destroy.pc # "none" => Joined
    /\ destroy.pc = "walk" /\ destroy.cur # NULL => cache.node[destroy.cur].live

\* A get waits for the write lock with the pointer of its first scan, and
\* the entry it points to has been freed.
C20_Witness ==
    \E t \in Threads : /\ pc[t] = "get_wrlock"
                       /\ cur[t] # NULL
                       /\ ~cache.node[cur[t]].live
====
